---- MODULE Spec2Model ----
(***************************************************************************)
(* Course JSON Exporter (Chrome extension).                                *)
(*                                                                         *)
(*   content.js  runs inside the course page: an injection guard, the      *)
(*               lesson/section walker, the payload assembler and the      *)
(*               message handler.                                          *)
(*   popup.js    runs in the popup: the export click flow, the request /   *)
(*               recovery / retry protocol and the bounded reload wait.    *)
(*                                                                         *)
(* Strings the code only compares or concatenates are kept as strings;     *)
(* strings the code searches (error messages) are sequences of fragments,  *)
(* so that String.prototype.includes is a real search.                     *)
(***************************************************************************)
EXTENDS Integers, Sequences, FiniteSets, TLC

(***************************************************************************)
(* Bounds of the model.                                                    *)
(***************************************************************************)
MaxNodes == 3        \* nodes matched by the walker's querySelectorAll
MaxItems == 2        \* lesson items found under one lesson-list node
MaxScriptRuns == 3   \* executions of content.js in one behaviour
MaxMessages == 2     \* messages dispatched to one document (document-side spec)
MaxClicks == 2       \* clicks on the export button in one behaviour
MaxTabEvents == 2    \* tab updates reported during and after one reload wait

(***************************************************************************)
(* Program constants.                                                      *)
(***************************************************************************)
FirstSectionId == 1001
FirstLessonId == 1
ReloadTimeoutMs == 15000

VARIABLES
    \* ---- the tab's document (content.js) ----
    page,             \* the document: location path, course title, walker nodes
    loaded,           \* window.__fmCourseJsonExporterLoaded
    listeners,        \* handleExtractMessage listeners registered on onMessage
    scriptRuns,       \* executions of content.js so far (bounded)
    messages,         \* messages dispatched so far (document-side spec, bounded)
    lastMessage,      \* the last message dispatched to the document
    responses,        \* the sendResponse calls made for the last message
    extractions,      \* extractCoursePayload runs made for the last message
    seenRuns,         \* executions of content.js that preceded the last message
    walk,             \* the walker's final local state in the last extraction
    steps,            \* the stages the last extraction went through, in order
    \* ---- the popup (popup.js) ----
    pc,               \* the await onExportClick is suspended at ("idle": not running)
    buttonDisabled,   \* exportButton.disabled
    status,           \* statusNode: text fragments and the 'error' class
    chosenRootDirectory,
    scripting,        \* chrome.scripting.executeScript exists
    picker,           \* 'showDirectoryPicker' in window
    inflight,         \* onExportClick invocations that have not finished
    clicks,           \* clicks so far (bounded)
    wait,             \* waitForTabComplete: finished flag, listener, timer
    tabEvents,        \* tab updates reported since this wait began (bounded)
    run,              \* what this invocation has done so far (history)
    files,            \* the writes made by this invocation, in order
    history,          \* results of finished invocations, by path taken
    \* ---- one call of a pure function ----
    call,             \* the function called and its argument
    ret               \* what the call produced (a value, or a thrown error)

docVars == <<page, loaded, listeners, scriptRuns, messages, lastMessage,
             responses, extractions, seenRuns, walk, steps>>
popupVars == <<pc, buttonDisabled, status, chosenRootDirectory, scripting, picker,
               inflight, clicks, wait, tabEvents, run, files, history>>
pureVars == <<call, ret>>
vars == <<page, loaded, listeners, scriptRuns, messages, lastMessage, responses,
          extractions, seenRuns, walk, steps, call, ret, pc, buttonDisabled, status, chosenRootDirectory,
          scripting, picker, inflight, clicks, wait, tabEvents, run, files, history>>

(***************************************************************************)
(* Error messages, as sequences of fragments.                              *)
(***************************************************************************)
MissingReceiverFragment == "Receiving end does not exist"
MsgNoReceiver == <<"Could not establish connection. ", MissingReceiverFragment, ".">>
MsgTabClosed == <<"No tab with id.">>
MsgNotCourseUrl == <<"URL is not in /courses/<course-slug>/ format.">>
MsgNoCourse == <<"Course information could not be found on the page.">>
MsgUnknown == <<"Unknown error.">>
MsgCouldNotRead == <<"Could not read page data.">>
MsgTimeout == <<"Tab reload timed out. Please reload the page manually and try again.">>
MsgNoTab == <<"Active tab not found.">>
MsgNotCoursePage == <<"A Frontend Masters course page must be open in the active tab.">>
MsgCannotAccess == <<"Cannot access contents of the page.">>
MsgWriteFailed == <<"The write failed.">>
MsgQueryFailed == <<"Tabs cannot be queried right now.">>
MsgAborted == <<"The user aborted a request.">>
MsgQuoted == <<"Lesson list says: ", MissingReceiverFragment>>

Includes(message, fragment) == \E i \in DOMAIN message : message[i] = fragment

\* A thrown value: an Error (DOMException is one), with its name and message.
Err(message) == [name |-> "Error", message |-> message]
AbortError == [name |-> "AbortError", message |-> MsgAborted]

(***************************************************************************)
(* content.js: the walker.                                                 *)
(***************************************************************************)
NoSection == [id |-> 0, title |-> "", duration |-> ""]

HeaderNodes ==
    { [kind |-> "header", title |-> t[1], duration |-> t[2], items |-> 0] :
        t \in { <<"", "">>, <<"Intro", "10">> } }
ListNodes ==
    { [kind |-> "list", title |-> "", duration |-> "", items |-> k] : k \in 0..MaxItems }
Nodes == HeaderNodes \cup ListNodes

RECURSIVE SeqsUpTo(_, _)
SeqsUpTo(S, n) ==
    IF n = 0 THEN { <<>> }
    ELSE LET shorter == SeqsUpTo(S, n - 1)
         IN shorter \cup { Append(s, x) : s \in { t \in shorter : Len(t) = n - 1 }, x \in S }

\* content.js:355-357, the walker's locals before the loop. `created` records
\* the section ids handed out, in order (the code keeps them only in
\* currentSection; the record is kept here to state what was assigned).
WalkStart ==
    [lessons |-> <<>>, nextSectionId |-> FirstSectionId, nextLessonId |-> FirstLessonId,
     currentSection |-> NoSection, created |-> <<>>]

\* A lesson pushed without advancing the lesson counter.
PushLessonNoAdvance(acc) ==
    [acc EXCEPT
        !.lessons = Append(@, [id |-> acc.nextLessonId,
                               sectionId |-> acc.currentSection.id,
                               sectionTitle |-> acc.currentSection.title,
                               sectionDuration |-> acc.currentSection.duration])]

\* content.js:395-407, one lesson item: push a record that copies the current
\* section's fields, then advance the lesson counter.
PushLesson(acc) ==
    [acc EXCEPT
        !.lessons = Append(@, [id |-> acc.nextLessonId,
                               sectionId |-> acc.currentSection.id,
                               sectionTitle |-> acc.currentSection.title,
                               sectionDuration |-> acc.currentSection.duration]),
        !.nextLessonId = @ + 1]

\* content.js:384-408, the inner loop over the list's lesson items.
RECURSIVE PushLessons(_, _)
PushLessons(acc, k) == IF k = 0 THEN acc ELSE PushLessons(PushLesson(acc), k - 1)

\* content.js:361-368 and 377-378: a new current section takes the next id.
NewSection(acc, title, duration) ==
    [acc EXCEPT
        !.currentSection = [id |-> acc.nextSectionId, title |-> title, duration |-> duration],
        !.nextSectionId = @ + 1,
        !.created = Append(@, acc.nextSectionId)]

\* A synthetic section that leaves the section counter where it was.
SynthesizeNoAdvance(acc) ==
    [acc EXCEPT
        !.currentSection = [id |-> acc.nextSectionId, title |-> "", duration |-> ""],
        !.created = Append(@, acc.nextSectionId)]

\* content.js:376-379: a list met while no section is current gets a
\* synthetic section with empty title and duration.
Synthesize(acc) == NewSection(acc, "", "")

\* content.js:359-409, the loop body for one node of the sequence.
WalkNode(acc, node) ==
    IF node.kind = "header"
    THEN NewSection(acc, node.title, node.duration)
    ELSE LET withSection == IF acc.currentSection = NoSection
                            THEN Synthesize(acc)
                            ELSE acc
         IN PushLessons(withSection, node.items)

RECURSIVE WalkFrom(_, _)
WalkFrom(acc, sequence) ==
    IF sequence = <<>> THEN acc
    ELSE WalkFrom(WalkNode(acc, Head(sequence)), Tail(sequence))

\* Lessons that refer to whatever section is current when the walk ends.
ExtractLessonsWalkLive(sequence) ==
    LET w == WalkFrom(WalkStart, sequence)
    IN [w EXCEPT !.lessons =
            [i \in DOMAIN w.lessons |->
                [w.lessons[i] EXCEPT !.sectionId = w.currentSection.id,
                                     !.sectionTitle = w.currentSection.title,
                                     !.sectionDuration = w.currentSection.duration]]]

\* content.js:349-412
ExtractLessonsWalk(sequence) == WalkFrom(WalkStart, sequence)
ExtractLessons(sequence) == ExtractLessonsWalk(sequence).lessons

(***************************************************************************)
(* content.js: slug and payload.                                           *)
(***************************************************************************)
\* A pathname is the sequence String.prototype.split('/') gives.
CoursePath == <<"", "courses", "react", "">>
BarePath == <<"", "courses", "">>
OtherPath == <<"", "learn", "react">>
DoubleSlashPath == <<"", "courses", "", "react">>
NestedPath == <<"", "x", "courses", "react">>
Paths == {CoursePath, BarePath, OtherPath, DoubleSlashPath, NestedPath}

RECURSIVE FilterNonEmpty(_)
FilterNonEmpty(parts) ==
    IF parts = <<>> THEN <<>>
    ELSE IF Head(parts) = "" THEN FilterNonEmpty(Tail(parts))
         ELSE <<Head(parts)>> \o FilterNonEmpty(Tail(parts))

\* content.js:145-151
GetCourseSlug(pathname) ==
    LET parts == FilterNonEmpty(pathname)
    IN IF Len(parts) < 2 \/ parts[1] # "courses" THEN "" ELSE parts[2]

SectionIdsOf(lessons) == { lessons[i].sectionId : i \in DOMAIN lessons }

\* Sections counted as the ids handed out up to the last lesson's section.
CountSectionsByLastId(lessons) ==
    IF lessons = <<>> THEN 0 ELSE lessons[Len(lessons)].sectionId - (FirstSectionId - 1)

\* content.js:432-436
CountSections(lessons) == Cardinality(SectionIdsOf(lessons))

NoData ==
    [slug |-> "",
     payload |-> [courseData |-> [courseTitle |-> "", sectionCount |-> 0,
                                  lessonCount |-> 0, courseUrl |-> <<>>],
                  lessons |-> <<>>]]
NoError == [name |-> "none", message |-> <<>>]

\* content.js:178-183
BuildCourseUrl(slug) == IF slug = "" THEN <<>> ELSE <<"origin", "/courses/", slug, "/">>

\* The title is looked up first and the location second.
ExtractCoursePayloadTitleFirst(p) ==
    LET slug == GetCourseSlug(p.pathname)
        lessons == ExtractLessons(p.sequence)
    IN IF p.title = ""
       THEN [threw |-> TRUE, error |-> Err(MsgNoCourse), walked |-> FALSE,
             steps |-> <<"courseData">>, data |-> NoData]
       ELSE IF slug = ""
       THEN [threw |-> TRUE, error |-> Err(MsgNotCourseUrl), walked |-> FALSE,
             steps |-> <<"courseData", "slug">>, data |-> NoData]
       ELSE [threw |-> FALSE, error |-> NoError, walked |-> TRUE,
             steps |-> <<"courseData", "slug", "lessons">>,
             data |-> [slug |-> slug,
                       payload |-> [courseData |-> [courseTitle |-> p.title,
                                                    sectionCount |-> CountSections(lessons),
                                                    lessonCount |-> Len(lessons),
                                                    courseUrl |-> BuildCourseUrl(slug)],
                                    lessons |-> lessons]]]

\* content.js:420-449. `threw` says whether the function threw (`error`) or
\* returned (`data`); `walked` says whether the walker ran; `steps` lists the
\* stages entered: the slug read from the location (421), the course data
\* read from the DOM (426), the lessons walked (431).
ExtractCoursePayload(p) ==
    LET slug == GetCourseSlug(p.pathname)
        lessons == ExtractLessons(p.sequence)
    IN IF slug = ""
       THEN [threw |-> TRUE, error |-> Err(MsgNotCourseUrl), walked |-> FALSE,
             steps |-> <<"slug">>, data |-> NoData]
       ELSE IF p.title = ""
       THEN [threw |-> TRUE, error |-> Err(MsgNoCourse), walked |-> FALSE,
             steps |-> <<"slug", "courseData">>, data |-> NoData]
       ELSE [threw |-> FALSE, error |-> NoError, walked |-> TRUE,
             steps |-> <<"slug", "courseData", "lessons">>,
             data |-> [slug |-> slug,
                       payload |-> [courseData |-> [courseTitle |-> p.title,
                                                    sectionCount |-> CountSections(lessons),
                                                    lessonCount |-> Len(lessons),
                                                    courseUrl |-> BuildCourseUrl(slug)],
                                    lessons |-> lessons]]]

\* Messages and responses. A response is what the sender's promise resolves
\* with: `present` is FALSE for undefined; an absent error is the empty text.
ExtractRequest == [type |-> "extract-course-data"]
OtherRequest == [type |-> "ping"]
NoMessage == [type |-> "undefined"]
Messages == {ExtractRequest, OtherRequest, NoMessage}

OkResponse(data) == [present |-> TRUE, ok |-> TRUE, error |-> <<>>, data |-> data]
FailResponse(error) == [present |-> TRUE, ok |-> FALSE, error |-> error, data |-> NoData]
UndefinedResponse == [present |-> FALSE, ok |-> FALSE, error |-> <<>>, data |-> NoData]

IsRequest(message) == message # NoMessage /\ message.type = "extract-course-data"

\* A handler without the try/catch: a throwing extraction sends no response.
HandleExtractMessageNoCatch(message, p) ==
    IF ~IsRequest(message)
    THEN <<>>
    ELSE LET r == ExtractCoursePayload(p)
         IN IF r.threw THEN <<>> ELSE << OkResponse(r.data) >>

\* content.js:459-475, one listener's reaction to one message: the
\* sendResponse calls it makes (none for a message that is not a request).
HandleExtractMessage(message, p) ==
    IF ~IsRequest(message)
    THEN <<>>
    ELSE LET r == ExtractCoursePayload(p)
         IN IF r.threw
            THEN << FailResponse(r.error.message) >>
            ELSE << OkResponse(r.data) >>

RECURSIVE Repeat(_, _)
Repeat(s, n) == IF n = 0 THEN <<>> ELSE s \o Repeat(s, n - 1)

\* chrome.runtime.onMessage: every registered listener is called in turn.
Dispatch(message, p, n) == Repeat(HandleExtractMessage(message, p), n)

NoWalk ==
    [lessons |-> <<>>, nextSectionId |-> 0, nextLessonId |-> 0,
     currentSection |-> NoSection, created |-> <<>>]

\* The walker state left by the (last) extraction a dispatch caused.
WalkOf(message, p, n) ==
    IF n > 0 /\ IsRequest(message) /\ ExtractCoursePayload(p).walked
    THEN ExtractLessonsWalk(p.sequence)
    ELSE NoWalk

ExtractionsOf(message, n) == IF IsRequest(message) THEN n ELSE 0

\* The stages of the (last) extraction a dispatch caused.
StepsOf(message, p, n) ==
    IF n > 0 /\ IsRequest(message) THEN ExtractCoursePayload(p).steps ELSE <<>>

(***************************************************************************)
(* content.js: the injection guard.                                        *)
(***************************************************************************)
\* content.js:4-7 and 477, one execution of the script in a document whose
\* flag and listener count are given.
ContentScriptUnguarded(flag, count) == [loaded |-> TRUE, listeners |-> count + 1]
ContentScriptRun(flag, count) ==
    IF flag THEN [loaded |-> flag, listeners |-> count]
    ELSE [loaded |-> TRUE, listeners |-> count + 1]

(***************************************************************************)
(* The pages.                                                              *)
(***************************************************************************)
Titles == {"", "React"}
NodeSequences == SeqsUpTo(Nodes, MaxNodes)
Pages == [pathname : Paths, title : Titles, sequence : NodeSequences]

Header(t, d) == [kind |-> "header", title |-> t, duration |-> d, items |-> 0]
List(k) == [kind |-> "list", title |-> "", duration |-> "", items |-> k]
CoursePage(sequence) == [pathname |-> CoursePath, title |-> "React", sequence |-> sequence]

\* The pages the popup is exercised against: lessons before any header, an
\* empty header between two sections, no lessons, no title, no course path.
SamplePages ==
    { CoursePage(<<List(1), Header("Intro", "10"), List(2)>>),
      CoursePage(<<Header("Intro", "10"), Header("", ""), List(1)>>),
      CoursePage(<<>>),
      [pathname |-> CoursePath, title |-> "", sequence |-> <<List(1)>>],
      [pathname |-> OtherPath, title |-> "React", sequence |-> <<List(1)>>] }

(***************************************************************************)
(* The document: the steps the browser takes with content.js.              *)
(***************************************************************************)
Idle == "idle"
NoStatus == [text |-> <<>>, error |-> FALSE]
NoWait ==
    [finished |-> FALSE, listener |-> FALSE, timer |-> FALSE, timeoutMs |-> 0,
     promise |-> "none", calls |-> 0, received |-> <<>>]
NewRun ==
    [sends |-> 0, injections |-> 0, reloads |-> 0, first |-> "none",
     recovery |-> "none", timedOut |-> FALSE, log |-> <<>>, outcome |-> "none",
     result |-> NoData, selection |-> "none", failedWrite |-> 0]
NoHistory == [direct |-> NoData, injected |-> NoData, reloaded |-> NoData]

(***************************************************************************)
(* JavaScript values and texts. A text is a sequence of characters; "zw"   *)
(* is the zero-width space U+200B and " " stands for any whitespace.       *)
(***************************************************************************)
MaxTextLen == 4
MaxLessons == 2

Undefined == [type |-> "undefined", num |-> 0, text |-> <<>>]
Null == [type |-> "null", num |-> 0, text |-> <<>>]
Num(n) == [type |-> "number", num |-> n, text |-> <<>>]
Bool(b) == [type |-> "boolean", num |-> IF b THEN 1 ELSE 0, text |-> <<>>]
Str(s) == [type |-> "string", num |-> 0, text |-> s]

\* `value || ''` keeps a value exactly when it is truthy.
Truthy(v) ==
    CASE v.type = "string" -> v.text # <<>>
      [] v.type = "number" -> v.num # 0
      [] v.type = "boolean" -> v.num = 1
      [] OTHER -> FALSE

TypeError == [name |-> "TypeError", message |-> <<"(value || '').replace is not a function">>]
Returned(v) == [threw |-> FALSE, error |-> NoError, value |-> v]
Thrown(e) == [threw |-> TRUE, error |-> e, value |-> Undefined]

Digits == <<"0", "1", "2", "3", "4", "5", "6", "7", "8", "9">>
IsDigit(c) == \E d \in DOMAIN Digits : Digits[d] = c
DigitValue(c) == (CHOOSE d \in DOMAIN Digits : Digits[d] = c) - 1

\* .replace(/\u200b/g, '')
RECURSIVE StripZeroWidth(_)
StripZeroWidth(s) ==
    IF s = <<>> THEN <<>>
    ELSE IF Head(s) = "zw" THEN StripZeroWidth(Tail(s))
         ELSE <<Head(s)>> \o StripZeroWidth(Tail(s))

\* .replace(/\s+/g, ' ')
RECURSIVE CollapseSpaces(_)
CollapseSpaces(s) ==
    IF Len(s) < 2 THEN s
    ELSE IF s[1] = " " /\ s[2] = " " THEN CollapseSpaces(Tail(s))
         ELSE <<Head(s)>> \o CollapseSpaces(Tail(s))

RECURSIVE TrimStart(_)
TrimStart(s) == IF s # <<>> /\ Head(s) = " " THEN TrimStart(Tail(s)) ELSE s

RECURSIVE TrimEnd(_)
TrimEnd(s) ==
    IF s # <<>> /\ s[Len(s)] = " " THEN TrimEnd(SubSeq(s, 1, Len(s) - 1)) ELSE s

\* .trim()
Trim(s) == TrimEnd(TrimStart(s))

\* content.js:49-54 on a text.
CleanString(s) == Trim(CollapseSpaces(StripZeroWidth(s)))

\* content.js:49-54: a falsy value is replaced by ''; any other value has
\* its replace method called, which only a string has.
CleanText(v) ==
    IF ~Truthy(v) THEN Returned(Str(<<>>))
    ELSE IF v.type = "string" THEN Returned(Str(CleanString(v.text)))
    ELSE Thrown(TypeError)

\* String.prototype.split with a one-character separator: the segments
\* between separators, one more than there are separators.
RECURSIVE Split(_, _)
Split(s, sep) ==
    IF s = <<>> THEN << <<>> >>
    ELSE LET rest == Split(Tail(s), sep)
         IN IF Head(s) = sep
            THEN << <<>> >> \o rest
            ELSE << <<Head(s)>> \o Head(rest) >> \o Tail(rest)

RECURSIVE DecimalValue(_)
DecimalValue(s) ==
    IF s = <<>> THEN 0
    ELSE DecimalValue(SubSeq(s, 1, Len(s) - 1)) * 10 + DigitValue(s[Len(s)])

AllDigits(s) == s # <<>> /\ \A i \in DOMAIN s : IsDigit(s[i])

NaN == [nan |-> TRUE, n |-> 0]

\* Number(text): surrounding whitespace is ignored, the empty text is 0, an
\* optionally signed run of digits is its value, anything else is NaN.
ToNumber(s) ==
    LET t == Trim(s)
    IN IF t = <<>> THEN [nan |-> FALSE, n |-> 0]
       ELSE IF AllDigits(t) THEN [nan |-> FALSE, n |-> DecimalValue(t)]
       ELSE IF Head(t) \in {"-", "+"} /\ AllDigits(Tail(t))
       THEN [nan |-> FALSE,
             n |-> IF Head(t) = "-" THEN 0 - DecimalValue(Tail(t)) ELSE DecimalValue(Tail(t))]
       ELSE NaN

\* String(n) for an integer n.
RECURSIVE NaturalToText(_)
NaturalToText(n) ==
    IF n < 10 THEN <<Digits[n + 1]>>
    ELSE NaturalToText(n \div 10) \o <<Digits[(n % 10) + 1]>>

IntegerToText(n) == IF n < 0 THEN <<"-">> \o NaturalToText(0 - n) ELSE NaturalToText(n)

\* content.js:92-111
TimestampToSeconds(v) ==
    LET c == CleanText(v)
    IN IF c.threw THEN c
       ELSE LET segments == Split(c.value.text, ":")
                parts == [i \in DOMAIN segments |-> ToNumber(segments[i])]
            IN IF Len(parts) = 0 \/ \E i \in DOMAIN parts : parts[i].nan
               THEN Returned(Null)
               ELSE IF Len(parts) = 3
               THEN Returned(Num(parts[1].n * 3600 + parts[2].n * 60 + parts[3].n))
               ELSE IF Len(parts) = 2
               THEN Returned(Num(parts[1].n * 60 + parts[2].n))
               ELSE IF Len(parts) = 1
               THEN Returned(Num(parts[1].n))
               ELSE Returned(Null)

\* content.js:119-137; Math.round(seconds / 60) for seconds >= 0 is
\* (seconds + 30) \div 60.
GetDurationFromTimeRange(v) ==
    LET c == CleanText(v)
    IN IF c.threw THEN c
       ELSE IF c.value.text = <<>> THEN Returned(Str(<<>>))
       ELSE LET segments == Split(c.value.text, "-")
                parts == [i \in DOMAIN segments |-> CleanText(Str(segments[i])).value]
            IN IF Len(parts) # 2 THEN Returned(Str(<<>>))
               ELSE LET start == TimestampToSeconds(parts[1]).value
                        end == TimestampToSeconds(parts[2]).value
                    IN IF start = Null \/ end = Null \/ end.num < start.num
                       THEN Returned(Str(<<>>))
                       ELSE Returned(Str(IntegerToText((end.num - start.num + 30) \div 60)))

\* String(value)
ToText(v) ==
    CASE v.type = "string" -> v.text
      [] v.type = "number" -> IntegerToText(v.num)
      [] v.type = "boolean" -> IF v.num = 1 THEN <<"true">> ELSE <<"false">>
      [] v.type = "null" -> <<"null">>
      [] OTHER -> <<"undefined">>

\* A lesson as buildV2Payload may receive it: null, or an object whose
\* fields are absent (undefined), null or set.
NullLesson ==
    [type |-> "null", id |-> Undefined, title |-> Undefined,
     duration |-> Undefined, lessonUrl |-> Undefined]
ObjectLesson(id, title, duration, lessonUrl) ==
    [type |-> "object", id |-> id, title |-> title,
     duration |-> duration, lessonUrl |-> lessonUrl]

\* popup.js:221-230, the task of one lesson.
TaskOf(lesson) ==
    LET present == lesson.type = "object"
        id == IF present /\ lesson.id.type # "undefined" THEN ToText(lesson.id) ELSE <<>>
        title == IF present /\ Truthy(lesson.title) THEN ToText(lesson.title) ELSE <<>>
        duration == IF present /\ Truthy(lesson.duration) THEN ToText(lesson.duration) ELSE <<>>
        lessonUrl == IF present /\ Truthy(lesson.lessonUrl) THEN ToText(lesson.lessonUrl) ELSE <<>>
    IN [content |-> id \o <<". ">> \o title \o <<" []">>,
        description |-> <<"- Duration: ">> \o duration \o <<" min\n- Url: ">> \o lessonUrl]

\* popup.js:214-233. A payload is undefined, null or an object; its lessons
\* are absent, null, something that is no array, or an array.
BuildV2Payload(payload) ==
    LET lessons == IF payload.type = "object" /\ payload.lessons.type = "array"
                   THEN payload.lessons.items
                   ELSE <<>>
    IN [tasks |-> [i \in DOMAIN lessons |-> TaskOf(lessons[i])]]

(***************************************************************************)
(* The inputs the pure functions are applied to.                           *)
(***************************************************************************)
Alphabet == {"1", "5", ":", "-", " ", "a", "zw"}
Values ==
    {Undefined, Null, Num(0), Num(42), Bool(FALSE), Bool(TRUE)}
    \cup { Str(s) : s \in SeqsUpTo(Alphabet, MaxTextLen) }

LessonValues ==
    {NullLesson} \cup
    { ObjectLesson(i, t, d, u) :
        i \in {Undefined, Null, Num(7)},
        t \in {Undefined, Null, Str(<<"A">>)},
        d \in {Undefined, Str(<<"1", "0">>)},
        u \in {Null, Str(<<"https://frontendmasters.com/courses/react/intro/">>)} }

PayloadOf(type, lessonsType, items) ==
    [type |-> type, lessons |-> [type |-> lessonsType, items |-> items]]
Payloads ==
    {PayloadOf("undefined", "undefined", <<>>),
     PayloadOf("null", "undefined", <<>>),
     PayloadOf("object", "undefined", <<>>),
     PayloadOf("object", "null", <<>>),
     PayloadOf("object", "string", <<>>)}
    \cup { PayloadOf("object", "array", items) :
             items \in SeqsUpTo(LessonValues, MaxLessons) }

Normalizers == {"cleanText", "timestampToSeconds", "getDurationFromTimeRange"}
Calls ==
    { [fn |-> f, arg |-> v] : f \in Normalizers, v \in Values }
    \cup { [fn |-> "buildV2Payload", arg |-> p] : p \in Payloads }

NoCall == [fn |-> "none", arg |-> Undefined]
NoRet == [done |-> FALSE, threw |-> FALSE, error |-> NoError, value |-> Undefined]
PureIdle == call = NoCall /\ ret = NoRet

DocInit ==
    /\ loaded = FALSE
    /\ listeners = 0
    /\ scriptRuns = 0
    /\ messages = 0
    /\ lastMessage = NoMessage
    /\ responses = <<>>
    /\ extractions = 0
    /\ seenRuns = 0
    /\ walk = NoWalk
    /\ steps = <<>>

PopupInit ==
    /\ pc = Idle
    /\ buttonDisabled = FALSE
    /\ status = NoStatus
    /\ chosenRootDirectory = FALSE
    /\ inflight = 0
    /\ clicks = 0
    /\ wait = NoWait
    /\ tabEvents = 0
    /\ run = NewRun
    /\ files = <<>>
    /\ history = NoHistory

\* The browser executes content.js in the document (a declared content
\* script, or an injection): content.js:1-478.
RunContentScript ==
    /\ scriptRuns < MaxScriptRuns
    /\ scriptRuns' = scriptRuns + 1
    /\ LET d == ContentScriptRun(loaded, listeners)
       IN /\ loaded' = d.loaded
          /\ listeners' = d.listeners
    /\ UNCHANGED <<page, messages, lastMessage, responses, extractions, seenRuns, walk, steps>>
    /\ UNCHANGED popupVars
    /\ UNCHANGED pureVars

\* The effect on the document of one message reaching its listeners.
Deliver(message) ==
    /\ lastMessage' = message
    /\ responses' = Dispatch(message, page, listeners)
    /\ extractions' = ExtractionsOf(message, listeners)
    /\ seenRuns' = scriptRuns
    /\ steps' = StepsOf(message, page, listeners)
    /\ walk' = WalkOf(message, page, listeners)

\* A message is dispatched to the document's listeners.
OnMessage(message) ==
    /\ messages < MaxMessages
    /\ messages' = messages + 1
    /\ Deliver(message)
    /\ UNCHANGED <<page, loaded, listeners, scriptRuns>>
    /\ UNCHANGED popupVars
    /\ UNCHANGED pureVars

DocSpecInit ==
    /\ page \in Pages
    /\ DocInit
    /\ PopupInit
    /\ PureIdle
    /\ scripting = TRUE
    /\ picker = TRUE

DocNext == RunContentScript \/ \E m \in Messages : OnMessage(m)

\* The document on its own: any page, any order of script executions and messages.
DocSpec == DocSpecInit /\ [][DocNext]_vars

(***************************************************************************)
(* The pure functions, each applied once to an input drawn at the start.   *)
(***************************************************************************)
\* The call returns or throws: its outcome is recorded.
Settle(result) ==
    /\ ~ret.done
    /\ ret' = [done |-> TRUE, threw |-> result.threw, error |-> result.error,
               value |-> result.value]
    /\ UNCHANGED call
    /\ UNCHANGED docVars
    /\ UNCHANGED popupVars

CallCleanText ==
    /\ call.fn = "cleanText"
    /\ Settle(CleanText(call.arg))

CallTimestampToSeconds ==
    /\ call.fn = "timestampToSeconds"
    /\ Settle(TimestampToSeconds(call.arg))

CallGetDurationFromTimeRange ==
    /\ call.fn = "getDurationFromTimeRange"
    /\ Settle(GetDurationFromTimeRange(call.arg))

CallBuildV2Payload ==
    /\ call.fn = "buildV2Payload"
    /\ Settle(Returned(BuildV2Payload(call.arg)))

PureInit ==
    /\ call \in Calls
    /\ ret = NoRet
    /\ page = CoursePage(<<>>)
    /\ DocInit
    /\ PopupInit
    /\ scripting = TRUE
    /\ picker = TRUE

PureNext ==
    \/ CallCleanText
    \/ CallTimestampToSeconds
    \/ CallGetDurationFromTimeRange
    \/ CallBuildV2Payload

\* One call of one pure function on any input.
PureSpec == PureInit /\ [][PureNext]_vars

(***************************************************************************)
(* popup.js: helpers.                                                      *)
(***************************************************************************)
\* popup.js:96-99 (with getErrorMessage, popup.js:86-88)
IsMissingReceiverError(e) == Includes(e.message, MissingReceiverFragment)

\* The scripting API reported as missing.
ScriptingNeverUsable == FALSE

\* popup.js:106-110
CanUseScriptingApi == scripting

\* popup.js:199-206: throws for an absent or failed response, else returns
\* the response's data.
ParseExtractResponse(response) ==
    IF ~response.present \/ ~response.ok
    THEN [threw |-> TRUE,
          error |-> Err(IF response.present /\ response.error # <<>>
                        THEN response.error ELSE MsgCouldNotRead),
          data |-> NoData]
    ELSE [threw |-> FALSE, error |-> NoError, data |-> response.data]

\* popup.js:348-354, the status the catch block shows for a thrown value
\* ("[x] " stands for the cross mark the code puts before the message).
StatusCancelled == [text |-> <<"Folder selection was cancelled.">>, error |-> FALSE]
\* A catch block without the branch for AbortError.
CatchStatusAlwaysError(e) == [text |-> <<"[x] ">> \o e.message, error |-> TRUE]
CatchStatus(e) ==
    IF e.name = "AbortError" THEN StatusCancelled
    ELSE [text |-> <<"[x] ">> \o e.message, error |-> TRUE]

\* popup.js:335-336
BaseFileName(slug) == <<slug, ".json">>
V2FileName(slug) == <<slug, "-v2.json">>

\* popup.js:338-347, the mechanism both writes go through.
Mechanism == IF chosenRootDirectory THEN "folder" ELSE "download"

\* The ways chrome.tabs.sendMessage can settle for the tab as it is now.
\* With no listener registered the promise rejects with the missing-receiver
\* error; a closed tab rejects too. Otherwise it resolves: with the response of
\* content.js's handler, or (popup.js:195, the declared response type, which
\* parseExtractResponse is written to accept) with no response at all or with
\* a failure whose error text is absent or is any text.
LooseResponses == {UndefinedResponse, FailResponse(<<>>), FailResponse(MsgQuoted)}
SendOutcomes ==
    { [settled |-> "rejected", error |-> Err(MsgTabClosed), handled |-> FALSE,
       response |-> UndefinedResponse] }
    \cup
    ( IF listeners = 0
      THEN { [settled |-> "rejected", error |-> Err(MsgNoReceiver), handled |-> FALSE,
              response |-> UndefinedResponse] }
      ELSE { [settled |-> "resolved", error |-> NoError, handled |-> TRUE,
              response |-> Dispatch(ExtractRequest, page, listeners)[1]] }
           \cup { [settled |-> "resolved", error |-> NoError, handled |-> FALSE,
                   response |-> r] : r \in LooseResponses } )

\* popup.js:246-249 / 264-267: what `await sendMessage` followed by
\* parseExtractResponse produces for one way of settling.
Attempt(o) ==
    IF o.settled = "rejected"
    THEN [threw |-> TRUE, error |-> o.error, data |-> NoData]
    ELSE ParseExtractResponse(o.response)

OutcomeKind(o) ==
    IF o.settled = "rejected"
    THEN (IF IsMissingReceiverError(o.error) THEN "noReceiver" ELSE "sendError")
    ELSE IF ~o.response.present THEN "noResponse"
    ELSE IF o.response.ok THEN "okTrue" ELSE "okFalse"

Logged(r, events) == [r EXCEPT !.log = @ \o events]

\* The document as the request leaves it.
Reaches(o) ==
    IF o.handled
    THEN Deliver(ExtractRequest)
    ELSE UNCHANGED <<lastMessage, responses, extractions, seenRuns, walk, steps>>

(***************************************************************************)
(* popup.js: onExportClick, one action per await.                          *)
(***************************************************************************)
\* popup.js:348-357: a thrown value reaches the catch block, then finally.
Throw(e, r) ==
    /\ status' = CatchStatus(e)
    /\ buttonDisabled' = FALSE
    /\ inflight' = inflight - 1
    /\ pc' = Idle
    /\ run' = [r EXCEPT !.outcome = IF e.name = "AbortError" THEN "cancelled" ELSE "failed"]

\* popup.js:318, the button while an invocation runs.
ClickKeepsButton == FALSE
ClickDisablesButton == TRUE

\* popup.js:317-322: the click handler up to `await getActiveTab()`. A
\* disabled button dispatches no click event.
Click ==
    /\ ~buttonDisabled
    /\ clicks < MaxClicks
    /\ clicks' = clicks + 1
    /\ buttonDisabled' = ClickDisablesButton
    /\ inflight' = inflight + 1
    /\ status' = [text |-> <<"Checking active page...">>, error |-> FALSE]
    /\ pc' = "query"
    /\ run' = NewRun
    /\ files' = <<>>
    /\ chosenRootDirectory' = FALSE
    /\ wait' = NoWait
    /\ tabEvents' = 0
    /\ UNCHANGED <<scripting, picker, history>>
    /\ UNCHANGED docVars
    /\ UNCHANGED pureVars

\* popup.js:332-333 and 243-248: status, assertValidCourseTab again (it
\* passed at 322), the first request is sent.
SendFirst(r) ==
    /\ status' = [text |-> <<"Reading course data...">>, error |-> FALSE]
    /\ pc' = "req1"
    /\ run' = Logged([r EXCEPT !.sends = @ + 1], <<"request">>)
    /\ UNCHANGED <<buttonDisabled, inflight>>

\* popup.js:322 (44-47, 66-78): the tab query rejects, or finds no tab, or a
\* tab that is not a course page.
QueryFails(e) ==
    /\ pc = "query"
    /\ Throw(e, run)
    /\ UNCHANGED <<chosenRootDirectory, scripting, picker, clicks, wait, tabEvents,
                   files, history>>
    /\ UNCHANGED docVars
    /\ UNCHANGED pureVars

\* popup.js:322-333: the active tab is a course page.
QueryCourse ==
    /\ pc = "query"
    /\ IF picker
       THEN /\ status' = [text |-> <<"Select project folder...">>, error |-> FALSE]
            /\ pc' = "picker"
            /\ UNCHANGED <<buttonDisabled, inflight, run>>
       ELSE SendFirst(run)
    /\ UNCHANGED <<chosenRootDirectory, scripting, picker, clicks, wait, tabEvents,
                   files, history>>
    /\ UNCHANGED docVars
    /\ UNCHANGED pureVars

\* popup.js:327-333: the user picked a folder.
PickerChosen ==
    /\ pc = "picker"
    /\ chosenRootDirectory' = TRUE
    /\ SendFirst([run EXCEPT !.selection = "chosen"])
    /\ UNCHANGED <<scripting, picker, clicks, wait, tabEvents, files, history>>
    /\ UNCHANGED docVars
    /\ UNCHANGED pureVars

\* popup.js:327-329: the picker rejects (AbortError when the user cancels).
PickerFails(e) ==
    /\ pc = "picker"
    /\ Throw(e, [run EXCEPT !.selection = IF e = AbortError THEN "abandoned" ELSE "failed"])
    /\ UNCHANGED <<chosenRootDirectory, scripting, picker, clicks, wait, tabEvents,
                   files, history>>
    /\ UNCHANGED docVars
    /\ UNCHANGED pureVars

(***************************************************************************)
(* popup.js: requestCourseData.                                            *)
(***************************************************************************)
\* popup.js:264-266: the retry request is sent once recovery has completed.
SendRetry(r) ==
    /\ pc' = "req2"
    /\ run' = Logged([r EXCEPT !.recovery = "done", !.sends = @ + 1],
                     <<"recovered", "retry">>)
    /\ UNCHANGED <<status, buttonDisabled, inflight>>

\* A recovery whose promise is not awaited: the retry leaves at once.
StartRecoveryNoAwait(r) ==
    /\ pc' = "req2"
    /\ run' = Logged([r EXCEPT !.injections = @ + 1, !.recovery = "pending",
                               !.sends = @ + 1], <<"recover", "retry">>)
    /\ UNCHANGED <<status, buttonDisabled, inflight>>

\* popup.js:255-262: recovery starts, by injection when the scripting API is
\* there and by reload otherwise, and is awaited.
StartRecovery(r) ==
    /\ IF CanUseScriptingApi
       THEN /\ pc' = "inject"
            /\ run' = Logged([r EXCEPT !.injections = @ + 1, !.recovery = "pending"],
                             <<"recover">>)
       ELSE /\ pc' = "reload"
            /\ run' = Logged([r EXCEPT !.reloads = @ + 1, !.recovery = "pending"],
                             <<"recover">>)
    /\ UNCHANGED <<status, buttonDisabled, inflight>>

\* popup.js:250-262: whatever the try block threw (a rejected send, or
\* parseExtractResponse's throw at 249) reaches this catch.
AfterFirstThrow(e, r) ==
    IF ~IsMissingReceiverError(e)
    THEN Throw(e, Logged(r, <<"deliver">>))
    ELSE StartRecovery(r)

\* A retry whose failure is handled like the first request's.
AfterRetryThrowRecovers(e, r) == AfterFirstThrow(e, r)

\* popup.js:264-267: the retry is inside the catch block, so what it throws
\* leaves requestCourseData.
AfterRetryThrow(e, r) == Throw(e, Logged(r, <<"deliver">>))

\* popup.js:333-339/345: requestCourseData returned; the task list is built
\* and the first write starts.
Succeed(data, r) ==
    /\ pc' = "save1"
    /\ run' = Logged([r EXCEPT !.result = data], <<"deliver">>)
    /\ UNCHANGED <<status, buttonDisabled, inflight>>

\* A retry that hands back the payload without the slug.
RetryDropsSlug(o) ==
    LET a == Attempt(o)
    IN IF a.threw THEN a ELSE [a EXCEPT !.data.slug = ""]

\* popup.js:264-267, what the retry hands back.
RetryReturn(o) == Attempt(o)

\* popup.js:246-262: the first request settles.
Req1Settle(o) ==
    /\ pc = "req1"
    /\ LET a == Attempt(o)
           r == Logged([run EXCEPT !.first = OutcomeKind(o)], <<"settled">>)
       IN IF a.threw
          THEN /\ AfterFirstThrow(a.error, r)
               /\ UNCHANGED history
          ELSE /\ Succeed(a.data, r)
               /\ history' = [history EXCEPT !.direct = a.data]
    /\ Reaches(o)
    /\ UNCHANGED <<page, loaded, listeners, scriptRuns, messages>>
    /\ UNCHANGED <<chosenRootDirectory, scripting, picker, clicks, wait, tabEvents, files>>
    /\ UNCHANGED pureVars

\* popup.js:256-259 rejects (the tab cannot be scripted).
InjectFails ==
    /\ pc = "inject"
    /\ Throw(Err(MsgCannotAccess), Logged([run EXCEPT !.recovery = "failed"], <<"deliver">>))
    /\ UNCHANGED <<chosenRootDirectory, scripting, picker, clicks, wait, tabEvents,
                   files, history>>
    /\ UNCHANGED docVars
    /\ UNCHANGED pureVars

\* popup.js:256-266: content.js has run in the tab; the retry is sent.
InjectDone ==
    /\ pc = "inject"
    /\ LET d == ContentScriptRun(loaded, listeners)
       IN /\ loaded' = d.loaded
          /\ listeners' = d.listeners
    /\ scriptRuns' = scriptRuns + 1
    /\ SendRetry(run)
    /\ UNCHANGED <<page, messages, lastMessage, responses, extractions, seenRuns, walk, steps>>
    /\ UNCHANGED <<chosenRootDirectory, scripting, picker, clicks, wait, tabEvents,
                   files, history>>
    /\ UNCHANGED pureVars

\* popup.js:118-128: the reload callback reports chrome.runtime.lastError.
ReloadFails ==
    /\ pc = "reload"
    /\ Throw(Err(MsgTabClosed), Logged([run EXCEPT !.recovery = "failed"], <<"deliver">>))
    /\ UNCHANGED <<chosenRootDirectory, scripting, picker, clicks, wait, tabEvents,
                   files, history>>
    /\ UNCHANGED docVars
    /\ UNCHANGED pureVars

\* popup.js:188-189 and 137-178: the reload started (the tab gets a new
\* document); the wait arms its timer and registers its listener.
ReloadDone ==
    /\ pc = "reload"
    /\ loaded' = FALSE
    /\ listeners' = 0
    /\ wait' = [finished |-> FALSE, listener |-> TRUE, timer |-> TRUE,
                timeoutMs |-> ReloadTimeoutMs, promise |-> "pending", calls |-> 0,
                received |-> <<>>]
    /\ tabEvents' = 0
    /\ pc' = "wait"
    /\ UNCHANGED <<page, scriptRuns, messages, lastMessage, responses, extractions,
                   seenRuns, walk, steps>>
    /\ UNCHANGED <<buttonDisabled, status, chosenRootDirectory, scripting, picker,
                   inflight, clicks, run, files, history>>
    /\ UNCHANGED pureVars

\* A cleanup that sets the flag and clears the timer but leaves the update
\* listener registered.
CleanupKeepsListener(w) ==
    IF w.finished THEN w
    ELSE [w EXCEPT !.finished = TRUE, !.timer = FALSE]

\* popup.js:154-161
Cleanup(w) ==
    IF w.finished THEN w
    ELSE [w EXCEPT !.finished = TRUE, !.timer = FALSE, !.listener = FALSE]

\* resolve() or reject() is called on the wait's promise (popup.js:142, 173):
\* the call is counted, and it settles the promise only while it is pending.
SettleWait(w, outcome) ==
    [w EXCEPT !.calls = @ + 1,
              !.promise = IF @ = "pending" THEN outcome ELSE @]

\* popup.js:170-175 (then 264-266): the browser reports a tab update. While
\* onUpdated is registered it receives the event, and for the target tab
\* with status complete it cleans up and resolves; refreshTabAndWait then
\* returns and the retry is sent. With no listener registered nothing runs.
TabUpdated(updatedTab, tabStatus) ==
    /\ wait.promise # "none"
    /\ tabEvents < MaxTabEvents
    /\ tabEvents' = tabEvents + 1
    /\ IF wait.listener
       THEN LET w == [wait EXCEPT !.received = Append(@, <<updatedTab, tabStatus>>)]
            IN IF updatedTab = "target" /\ tabStatus = "complete"
               THEN /\ wait' = SettleWait(Cleanup(w), "resolved")
                    /\ IF wait.promise = "pending"
                       THEN SendRetry(run)
                       ELSE UNCHANGED <<pc, run, status, buttonDisabled, inflight>>
               ELSE /\ wait' = w
                    /\ UNCHANGED <<pc, run, status, buttonDisabled, inflight>>
       ELSE UNCHANGED <<wait, pc, run, status, buttonDisabled, inflight>>
    /\ UNCHANGED <<chosenRootDirectory, scripting, picker, clicks, files, history>>
    /\ UNCHANGED docVars
    /\ UNCHANGED pureVars

\* The timer callback resolving the wait instead of rejecting it.
TimerFiresResolves ==
    /\ pc = "wait"
    /\ wait.timer
    /\ wait' = SettleWait(Cleanup(wait), "resolved")
    /\ SendRetry([run EXCEPT !.timedOut = TRUE])
    /\ UNCHANGED <<chosenRootDirectory, scripting, picker, clicks, tabEvents, files, history>>
    /\ UNCHANGED docVars
    /\ UNCHANGED pureVars

\* The timer callback cleaning up without rejecting the wait.
TimerFiresSilently ==
    /\ pc = "wait"
    /\ wait.timer
    /\ wait' = Cleanup(wait)
    /\ UNCHANGED <<pc, status, buttonDisabled, inflight, run>>
    /\ UNCHANGED <<chosenRootDirectory, scripting, picker, clicks, tabEvents, files, history>>
    /\ UNCHANGED docVars
    /\ UNCHANGED pureVars

\* popup.js:140-147: the timer, armed and not cleared, fires: the callback
\* cleans up and rejects, and the rejection leaves requestCourseData.
TimerFires ==
    /\ wait.timer
    /\ wait' = SettleWait(Cleanup(wait), "rejected")
    /\ IF wait.promise = "pending"
       THEN Throw(Err(MsgTimeout),
                  Logged([run EXCEPT !.timedOut = TRUE, !.recovery = "failed"],
                         <<"deliver">>))
       ELSE UNCHANGED <<pc, run, status, buttonDisabled, inflight>>
    /\ UNCHANGED <<chosenRootDirectory, scripting, picker, clicks, tabEvents, files, history>>
    /\ UNCHANGED docVars
    /\ UNCHANGED pureVars

\* popup.js:264-268: the retry settles.
Req2Settle(o) ==
    /\ pc = "req2"
    /\ LET a == RetryReturn(o)
           r == Logged(run, <<"settled">>)
       IN IF a.threw
          THEN /\ AfterRetryThrow(a.error, r)
               /\ UNCHANGED history
          ELSE /\ Succeed(a.data, r)
               /\ history' =
                    IF run.first = "noReceiver" /\ run.injections = 1
                    THEN [history EXCEPT !.injected = a.data]
                    ELSE IF run.first = "noReceiver" /\ run.reloads = 1
                    THEN [history EXCEPT !.reloaded = a.data]
                    ELSE history
    /\ Reaches(o)
    /\ UNCHANGED <<page, loaded, listeners, scriptRuns, messages>>
    /\ UNCHANGED <<chosenRootDirectory, scripting, picker, clicks, wait, tabEvents, files>>
    /\ UNCHANGED pureVars

(***************************************************************************)
(* popup.js: the two writes.                                               *)
(***************************************************************************)
\* The ways a write can reject: chrome.downloads.download with an Error; the
\* folder write (popup.js:280-285) with an Error or with a DOMException, of
\* which createWritable and close raise the one named AbortError when the
\* browser's safety checks on the written file fail.
WriteErrors ==
    {Err(MsgWriteFailed)} \cup (IF chosenRootDirectory THEN {AbortError} ELSE {})

\* popup.js:339 / 345: the first write succeeded; the second starts.
Save1Done ==
    /\ pc = "save1"
    /\ files' = Append(files, [name |-> BaseFileName(run.result.slug), via |-> Mechanism])
    /\ pc' = "save2"
    /\ UNCHANGED <<buttonDisabled, status, chosenRootDirectory, scripting, picker,
                   inflight, clicks, wait, tabEvents, run, history>>
    /\ UNCHANGED docVars
    /\ UNCHANGED pureVars

\* popup.js:339 / 345 rejects.
Save1Fails(e) ==
    /\ pc = "save1"
    /\ Throw(e, [run EXCEPT !.failedWrite = 1])
    /\ UNCHANGED <<chosenRootDirectory, scripting, picker, clicks, wait, tabEvents,
                   files, history>>
    /\ UNCHANGED docVars
    /\ UNCHANGED pureVars

\* popup.js:340-342 / 346-347 and 355-357: the second write succeeded.
Save2Done ==
    /\ pc = "save2"
    /\ files' = Append(files, [name |-> V2FileName(run.result.slug), via |-> Mechanism])
    /\ status' = [text |-> <<IF chosenRootDirectory THEN "Saved: " ELSE "Downloaded: ">>
                            \o BaseFileName(run.result.slug) \o <<", ">>
                            \o V2FileName(run.result.slug),
                  error |-> FALSE]
    /\ buttonDisabled' = FALSE
    /\ inflight' = inflight - 1
    /\ pc' = Idle
    /\ run' = [run EXCEPT !.outcome = "success"]
    /\ UNCHANGED <<chosenRootDirectory, scripting, picker, clicks, wait, tabEvents, history>>
    /\ UNCHANGED docVars
    /\ UNCHANGED pureVars

\* popup.js:340 / 346 rejects.
Save2Fails(e) ==
    /\ pc = "save2"
    /\ Throw(e, [run EXCEPT !.failedWrite = 2])
    /\ UNCHANGED <<chosenRootDirectory, scripting, picker, clicks, wait, tabEvents,
                   files, history>>
    /\ UNCHANGED docVars
    /\ UNCHANGED pureVars

(***************************************************************************)
(* The extension: popup and tab.                                           *)
(***************************************************************************)
QueryErrors == {Err(MsgQueryFailed), Err(MsgNoTab), Err(MsgNotCoursePage)}
PickerErrors == {AbortError, Err(MsgWriteFailed)}
Tabs == {"target", "other"}
TabStatuses == {"loading", "complete"}

Init ==
    /\ page \in SamplePages
    /\ scripting \in BOOLEAN
    /\ picker \in BOOLEAN
    /\ DocInit
    /\ PopupInit
    /\ PureIdle

Next ==
    \/ RunContentScript
    \/ Click
    \/ \E e \in QueryErrors : QueryFails(e)
    \/ QueryCourse
    \/ PickerChosen
    \/ \E e \in PickerErrors : PickerFails(e)
    \/ \E o \in SendOutcomes : Req1Settle(o)
    \/ InjectFails
    \/ InjectDone
    \/ ReloadFails
    \/ ReloadDone
    \/ \E t \in Tabs, s \in TabStatuses : TabUpdated(t, s)
    \/ TimerFires
    \/ \E o \in SendOutcomes : Req2Settle(o)
    \/ Save1Done
    \/ \E e \in WriteErrors : Save1Fails(e)
    \/ Save2Done
    \/ \E e \in WriteErrors : Save2Fails(e)

Spec == Init /\ [][Next]_vars

(***************************************************************************)
(* The extension when every awaited external call settles and the timer    *)
(* started by setTimeout fires unless it is cleared.                       *)
(***************************************************************************)
\* Whichever call the invocation is waiting for settles: the tab query
\* (popup.js:322), the picker (327), sendMessage (246, 264), executeScript
\* (256), the callback of chrome.tabs.reload (120), the timer (140), the
\* writes (339-340 / 345-346).
Settles ==
    \/ QueryCourse \/ \E e \in QueryErrors : QueryFails(e)
    \/ PickerChosen \/ \E e \in PickerErrors : PickerFails(e)
    \/ \E o \in SendOutcomes : Req1Settle(o)
    \/ InjectDone \/ InjectFails
    \/ ReloadDone \/ ReloadFails
    \/ TimerFires
    \/ \E o \in SendOutcomes : Req2Settle(o)
    \/ Save1Done \/ \E e \in WriteErrors : Save1Fails(e)
    \/ Save2Done \/ \E e \in WriteErrors : Save2Fails(e)

\* The extension on one course page, with or without the scripting API and
\* the folder picker.
FairInit ==
    /\ page = CoursePage(<<List(1)>>)
    /\ scripting \in BOOLEAN
    /\ picker \in BOOLEAN
    /\ DocInit
    /\ PopupInit
    /\ PureIdle

FairSpec == FairInit /\ [][Next]_vars /\ WF_vars(Settles)

(***************************************************************************)
(* Properties.                                                             *)
(***************************************************************************)
Count(log, event) == Cardinality({ i \in DOMAIN log : log[i] = event })
IsPrefix(s, t) == Len(s) <= Len(t) /\ \A i \in DOMAIN s : s[i] = t[i]
Finished == pc = Idle /\ run.outcome # "none"
RetryFailed == Count(run.log, "settled") = 2 /\ run.result = NoData

\* C1: one invocation of requestCourseData makes at most one recovery (one
\* injection or one reload, never both, never twice) and sends at most two
\* requests; when the retry fails, whatever the failure, the invocation is
\* over with that failure shown and nothing further was started.
C1_AtMostOneRecovery ==
    /\ run.injections + run.reloads <= 1
    /\ run.sends <= 2
    /\ RetryFailed =>
         /\ Finished
         /\ run.outcome = "failed"
         /\ status.error
         /\ run.sends = 2
         /\ run.injections + run.reloads = 1

\* A retry that failed with a second missing-receiver error, shown to the user.
C1_Witness ==
    /\ RetryFailed
    /\ run.first = "noReceiver"
    /\ status = [text |-> <<"[x] ">> \o MsgNoReceiver, error |-> TRUE]

\* C2: a first request answered by a structured failure (ok:false) ends the
\* invocation at once with that failure shown: no injection, no reload, no
\* second request, whatever the error text is.
C2_StructuredFailureNoRetry ==
    run.first = "okFalse" =>
        /\ Finished
        /\ run.outcome = "failed"
        /\ status.error
        /\ run.sends = 1
        /\ run.injections = 0
        /\ run.reloads = 0

\* C3: after a first send that failed for want of a receiver, recovery goes
\* by capability: with the scripting API one injection and no reload, without
\* it one reload (and a wait ended by the tab's complete event) and no
\* injection; a recovery that succeeded is followed by exactly one retry, and
\* one that is pending or failed by none.
C3_RecoveryByCapability ==
    run.first = "noReceiver" =>
        /\ run.recovery # "none"
        /\ scripting => run.injections = 1 /\ run.reloads = 0
        /\ ~scripting => run.injections = 0 /\ run.reloads = 1
        /\ run.recovery = "done" => run.sends = 2
        /\ run.recovery \in {"pending", "failed"} => run.sends = 1
        /\ (~scripting /\ run.recovery = "done") => wait.finished /\ ~run.timedOut

\* A reload recovery that completed and was followed by the retry.
C3_Witness ==
    /\ run.first = "noReceiver"
    /\ ~scripting
    /\ run.recovery = "done"
    /\ run.reloads = 1
    /\ run.sends = 2
    /\ tabEvents >= 1

\* C4: when the reload wait times out, the invocation is over with the
\* timeout message shown as an error, and no retry was sent.
C4_TimeoutNoRetry ==
    run.timedOut =>
        /\ Finished
        /\ run.outcome = "failed"
        /\ status = [text |-> <<"[x] ">> \o MsgTimeout, error |-> TRUE]
        /\ run.sends = 1
        /\ run.reloads = 1
        /\ Count(run.log, "retry") = 0

\* A timeout after tab events that were not the target's complete event.
C4_Witness == run.timedOut /\ Len(wait.received) >= 1 /\ wait.finished

\* C5: the events of one invocation come in order: the first request, its
\* settling, then recovery from start to completion, then the single retry
\* and its settling, then delivery; no retry is in flight while recovery is
\* pending, and delivery comes after every request sent has settled.
RecoveredOrder ==
    <<"request", "settled", "recover", "recovered", "retry", "settled", "deliver">>
EventOrders ==
    { <<"request", "settled", "deliver">>,
      <<"request", "settled", "recover", "deliver">>,
      RecoveredOrder }
C5_Ordering ==
    /\ \E order \in EventOrders : IsPrefix(run.log, order)
    /\ pc = "req2" => run.recovery = "done"
    /\ Count(run.log, "deliver") = 1 => Count(run.log, "settled") = run.sends

\* An invocation that went through recovery and retry to delivery.
C5_Witness == run.log = RecoveredOrder /\ run.result # NoData

\* C6: on one page, an invocation whose first request found no receiver,
\* injected and then succeeded returns what an invocation whose first request
\* succeeded returns.
C6_RecoveredEqualsDirect ==
    (history.direct # NoData /\ history.injected # NoData) =>
        history.injected = history.direct

\* Both kinds of invocation happened on a page with lessons.
C6_Witness ==
    /\ history.direct # NoData
    /\ history.injected # NoData
    /\ history.direct.payload.lessons # <<>>

\* C7: at most one export flow runs at a time: the button is disabled
\* exactly while an invocation is running, and enabled once it has ended,
\* however it ended.
C7_OneFlowInFlight ==
    /\ inflight <= 1
    /\ inflight = 1 <=> pc # Idle
    /\ pc # Idle => buttonDisabled
    /\ pc = Idle => ~buttonDisabled

\* A second invocation that started after the first had ended, and was cancelled.
C7_Witness ==
    /\ clicks = 2
    /\ Finished
    /\ run.outcome = "cancelled"
    /\ ~buttonDisabled

\* C8: however often content.js is executed in one document, one listener
\* is registered from the first execution on, and a request dispatched after
\* it gets exactly one response.
C8_InjectionIdempotent ==
    /\ scriptRuns >= 1 => loaded /\ listeners = 1
    /\ scriptRuns = 0 => ~loaded /\ listeners = 0
    /\ (IsRequest(lastMessage) /\ seenRuns >= 1) => Len(responses) = 1 /\ extractions = 1

\* A request answered once after the script had been executed three times.
C8_Witness ==
    /\ seenRuns >= 3
    /\ IsRequest(lastMessage)
    /\ Len(responses) = 1

\* C9: the lessons the walker returns are numbered 1, 2, ..., n in output
\* order, and the sections it created are numbered 1001, 1002, ... in the
\* order of creation, whatever the sequence of headers and lists.
C9_WalkerIds ==
    /\ \A i \in DOMAIN walk.lessons : walk.lessons[i].id = i
    /\ \A j \in DOMAIN walk.created : walk.created[j] = 1000 + j
    /\ (responses # <<>> /\ responses[1].ok) =>
           responses[1].data.payload.lessons = walk.lessons

\* Lessons before the first header and after it: two sections, three lessons.
C9_Witness ==
    /\ Len(walk.created) = 2
    /\ Len(walk.lessons) = 3
    /\ walk.lessons[1].sectionId # walk.lessons[Len(walk.lessons)].sectionId

\* C10: in an assembled payload sectionCount is the number of distinct
\* sectionId values among the lessons (a section without lessons took an id
\* but is not counted) and lessonCount is the number of lessons.
C10_Counts ==
    (responses # <<>> /\ responses[1].ok) =>
        LET payload == responses[1].data.payload
            ids == { payload.lessons[i].sectionId : i \in DOMAIN payload.lessons }
        IN /\ payload.courseData.sectionCount = Cardinality(ids)
           /\ payload.courseData.lessonCount = Len(payload.lessons)
           /\ payload.courseData.sectionCount <= Len(walk.created)

\* A payload whose page has a section without lessons.
C10_Witness ==
    /\ responses # <<>>
    /\ responses[1].ok
    /\ responses[1].data.payload.courseData.sectionCount = 1
    /\ responses[1].data.payload.courseData.lessonCount = 2
    /\ Len(walk.created) = 2

\* A location of the form /courses/<slug>/...: the first non-empty segment
\* of the path is `courses` and a further non-empty segment follows it.
IsCourseLocation(pathname) ==
    \E i \in DOMAIN pathname :
        /\ pathname[i] = "courses"
        /\ \A h \in 1..(i - 1) : pathname[h] = ""
        /\ \E j \in (i + 1)..Len(pathname) : pathname[j] # ""

Answered == IsRequest(lastMessage) /\ responses # <<>>

\* C11: an extraction checks the location first and the course title second.
\* A location that is not /courses/<slug>/... is answered with the structured
\* failure for the URL after the location alone was read; an empty title is
\* answered with the structured failure for the course after the course data
\* was read and before the lessons were walked; neither produces a payload.
\* Every other extraction succeeds with a payload.
C11_PreconditionsInOrder ==
    Answered =>
        \A k \in DOMAIN responses :
            IF ~IsCourseLocation(page.pathname)
            THEN /\ responses[k] = FailResponse(MsgNotCourseUrl)
                 /\ steps = <<"slug">>
                 /\ walk = NoWalk
            ELSE IF page.title = ""
            THEN /\ responses[k] = FailResponse(MsgNoCourse)
                 /\ steps = <<"slug", "courseData">>
                 /\ walk = NoWalk
            ELSE /\ responses[k].ok
                 /\ responses[k].error = <<>>
                 /\ responses[k].data.slug # ""
                 /\ steps = <<"slug", "courseData", "lessons">>

\* A page that fails both preconditions is answered for its location alone.
C11_Witness ==
    /\ Answered
    /\ ~IsCourseLocation(page.pathname)
    /\ page.title = ""
    /\ page.sequence # <<>>
    /\ responses[1] = FailResponse(MsgNotCourseUrl)
    /\ steps = <<"slug">>

\* A segment that is a plain integer: a non-empty run of digits.
PlainInteger(segment) == AllDigits(Trim(segment))

CalledOnText(fn) ==
    /\ call.fn = fn
    /\ call.arg.type = "string"
    /\ ret.done
    /\ ~ret.threw

\* C12: getDurationFromTimeRange returns the empty text unless the cleaned
\* input splits on '-' into exactly two non-empty trimmed parts, both valid
\* timestamps, with end >= start (so a range with an empty start or end part
\* gives the empty text), and its result is never a negative number.
C12_EmptyUnlessTwoParts ==
    CalledOnText("getDurationFromTimeRange") =>
        LET segments == Split(CleanString(call.arg.text), "-")
            parts == [i \in DOMAIN segments |-> Trim(segments[i])]
            start == TimestampToSeconds(Str(parts[1])).value
            end == TimestampToSeconds(Str(parts[2])).value
            wellFormed ==
                /\ Len(parts) = 2
                /\ parts[1] # <<>>
                /\ parts[2] # <<>>
                /\ start # Null
                /\ end # Null
                /\ end.num >= start.num
        IN /\ ~wellFormed => ret.value = Str(<<>>)
           /\ ret.value.text # <<>> => Head(ret.value.text) # "-"

\* C13: timestampToSeconds returns null when the text has no or more than
\* three ':'-separated segments or a segment that is not a plain integer (an
\* empty segment included), and otherwise the seconds of s, m:s or h:m:s.
C13_TimestampSegments ==
    CalledOnText("timestampToSeconds") =>
        LET segments == Split(CleanString(call.arg.text), ":")
            n == Len(segments)
            at(i) == DecimalValue(Trim(segments[i]))
        IN IF n \notin 1..3 \/ \E i \in DOMAIN segments : ~PlainInteger(segments[i])
           THEN ret.value = Null
           ELSE ret.value = Num(CASE n = 1 -> at(1)
                                  [] n = 2 -> at(1) * 60 + at(2)
                                  [] n = 3 -> at(1) * 3600 + at(2) * 60 + at(3))

\* A field that is absent or null is rendered as the empty text.
Rendered(field) == IF field.type \in {"undefined", "null"} THEN <<>> ELSE ToText(field)

\* C14: buildV2Payload returns one task per lesson in the lessons' order,
\* with content '{id}. {title} []' and description
\* '- Duration: {duration} min\n- Url: {url}', a field that is absent or
\* null rendered as the empty text; without a lessons array there is no task.
C14_TaskProjection ==
    (call.fn = "buildV2Payload" /\ ret.done) =>
        LET lessons == IF call.arg.type = "object" /\ call.arg.lessons.type = "array"
                       THEN call.arg.lessons.items
                       ELSE <<>>
            tasks == ret.value.tasks
        IN /\ ~ret.threw
           /\ Len(tasks) = Len(lessons)
           /\ \A i \in DOMAIN lessons :
                /\ tasks[i].content =
                       Rendered(lessons[i].id) \o <<". ">> \o Rendered(lessons[i].title)
                           \o <<" []">>
                /\ tasks[i].description =
                       <<"- Duration: ">> \o Rendered(lessons[i].duration)
                           \o <<" min\n- Url: ">> \o Rendered(lessons[i].lessonUrl)

\* C15: no normalizer throws, whatever value it is called with.
C15_NormalizersTotal ==
    (call.fn \in Normalizers /\ ret.done) => ~ret.threw

\* C16: when the user abandons the folder selection the invocation ends as a
\* cancellation shown without error styling, and, the selection coming before
\* the data request, that invocation sends no request, injects nothing,
\* reloads nothing and writes no file.
C16_AbandonedSelection ==
    /\ pc = "picker" => run.sends = 0 /\ files = <<>>
    /\ run.selection = "abandoned" =>
           /\ Finished
           /\ run.outcome = "cancelled"
           /\ status = StatusCancelled
           /\ ~status.error
           /\ ~buttonDisabled
           /\ run.sends = 0
           /\ run.injections = 0
           /\ run.reloads = 0
           /\ run.log = <<>>
           /\ run.failedWrite = 0
           /\ files = <<>>

\* A second invocation abandoned at the folder selection, after a first one
\* had sent its request.
C16_Witness ==
    /\ run.selection = "abandoned"
    /\ clicks = 2
    /\ history.direct # NoData
    /\ status = StatusCancelled

TwoArtifacts(slug, mechanism) ==
    << [name |-> BaseFileName(slug), via |-> mechanism],
       [name |-> V2FileName(slug), via |-> mechanism] >>

\* C17: after a successful extraction <slug>.json and then <slug>-v2.json
\* are written through one mechanism (the folder when one was chosen, a
\* download otherwise); success is shown only when both were written; a
\* failure of either write is shown as an error; nothing is written when
\* the data request failed.
C17_TwoWrites ==
    /\ IsPrefix(files, TwoArtifacts(run.result.slug, Mechanism))
    /\ files # <<>> => run.result # NoData
    /\ run.selection = "chosen" <=> (pc # Idle /\ Mechanism = "folder") \/ (Finished /\ chosenRootDirectory)
    /\ run.outcome = "success" =>
           /\ Len(files) = 2
           /\ ~status.error
           /\ status.text = <<IF chosenRootDirectory THEN "Saved: " ELSE "Downloaded: ">>
                                \o BaseFileName(run.result.slug) \o <<", ">>
                                \o V2FileName(run.result.slug)
    /\ (Finished /\ Len(files) = 2) => run.outcome = "success"
    /\ run.failedWrite # 0 =>
           /\ Finished
           /\ Len(files) = run.failedWrite - 1
           /\ status.error
    /\ (Finished /\ run.result = NoData) => files = <<>> /\ run.failedWrite = 0

\* C18: when every external call settles, every invocation of the export
\* eventually ends, as a success, a failure or a cancellation; an invocation
\* waiting for the reloaded tab ends too, the timeout failing it when no
\* completion event arrives.
C18_EventuallyTerminal ==
    (pc # Idle) ~> (Finished /\ run.outcome \in {"success", "failed", "cancelled"})

\* An invocation ended by the timeout of the reload wait.
C18_Witness ==
    /\ Finished
    /\ run.timedOut
    /\ run.outcome = "failed"
    /\ status = CatchStatus(Err(MsgTimeout))
    /\ wait.finished

\* The document order of headers and lists, read off the page itself.
HeaderPositions(sequence) == { i \in DOMAIN sequence : sequence[i].kind = "header" }
ListPositions(sequence) == { i \in DOMAIN sequence : sequence[i].kind = "list" }

\* The most recent header before position i, or 0 when there is none.
OwnerOf(sequence, i) ==
    LET before == { j \in HeaderPositions(sequence) : j < i }
    IN IF before = {} THEN 0 ELSE CHOOSE j \in before : \A h \in before : h <= j

HasSynthetic(sequence) == \E i \in ListPositions(sequence) : OwnerOf(sequence, i) = 0

RECURSIVE ItemsIn(_, _)
ItemsIn(sequence, positions) ==
    IF positions = {} THEN 0
    ELSE LET i == CHOOSE j \in positions : TRUE
         IN sequence[i].items + ItemsIn(sequence, positions \ {i})

Walked == IsRequest(lastMessage) /\ walk # NoWalk

\* C19: when a lesson list occurs before any section header, exactly one
\* synthetic section with empty title and duration is created; it takes the
\* id 1001, every lesson of every list before the first header carries that
\* id, and the first header then gets 1002. Without such a list no synthetic
\* section is created.
C19_SyntheticSection ==
    Walked =>
        LET sequence == page.sequence
            headers == HeaderPositions(sequence)
            lessons == walk.lessons
            before == ItemsIn(sequence, { i \in ListPositions(sequence) :
                                            OwnerOf(sequence, i) = 0 })
        IN IF HasSynthetic(sequence)
           THEN /\ Len(walk.created) = 1 + Cardinality(headers)
                /\ walk.created[1] = 1001
                /\ headers # {} => walk.created[2] = 1002
                /\ before <= Len(lessons)
                /\ \A k \in 1..before :
                     /\ lessons[k].sectionId = 1001
                     /\ lessons[k].sectionTitle = ""
                     /\ lessons[k].sectionDuration = ""
                /\ \A k \in DOMAIN lessons : k > before => lessons[k].sectionId >= 1002
                /\ \A i \in ListPositions(sequence) :
                     (i > 1 /\ OwnerOf(sequence, i) = i - 1 /\ sequence[i].items > 0
                        /\ Cardinality({ h \in headers : h < i }) = 1)
                     => \E k \in DOMAIN lessons : lessons[k].sectionId = 1002
           ELSE /\ Len(walk.created) = Cardinality(headers)
                /\ \A k \in DOMAIN lessons : lessons[k].sectionId # 0

\* Two lists before the first header: both carry the synthetic section 1001,
\* and the header after them got 1002.
C19_Witness ==
    /\ Walked
    /\ Len(page.sequence) = 3
    /\ page.sequence[1].kind = "list"
    /\ page.sequence[2].kind = "list"
    /\ page.sequence[3].kind = "header"
    /\ Len(walk.lessons) = 4
    /\ walk.lessons[4].sectionId = 1001
    /\ walk.created = <<1001, 1002>>
    /\ walk.currentSection.id = 1002

\* The section of the list at position i, computed from the page: that of
\* the most recent header before it, numbered by its rank among the sections,
\* or the synthetic section.
ExpectedSection(sequence, i) ==
    LET j == OwnerOf(sequence, i)
        rank == Cardinality({ h \in HeaderPositions(sequence) : h <= j })
                    + (IF HasSynthetic(sequence) THEN 1 ELSE 0)
    IN IF j = 0
       THEN [id |-> 1001, title |-> "", duration |-> ""]
       ELSE [id |-> 1000 + rank, title |-> sequence[j].title,
             duration |-> sequence[j].duration]

RECURSIVE ExpectedSections(_, _)
ExpectedSections(sequence, i) ==
    IF i > Len(sequence) THEN <<>>
    ELSE (IF sequence[i].kind = "list"
          THEN [k \in 1..sequence[i].items |-> ExpectedSection(sequence, i)]
          ELSE <<>>) \o ExpectedSections(sequence, i + 1)

SectionFields(lessons) ==
    [k \in DOMAIN lessons |->
        [id |-> lessons[k].sectionId, title |-> lessons[k].sectionTitle,
         duration |-> lessons[k].sectionDuration]]

\* C20: every lesson carries the id, title and duration of the section that
\* was current when it was processed (the most recent header before its
\* list, or the synthetic section); sectionId never decreases along the
\* lesson list; and the lessons of a prefix of the page are not changed by
\* the headers that follow it.
C20_SectionSnapshot ==
    Walked =>
        LET sequence == page.sequence
            lessons == walk.lessons
        IN /\ SectionFields(lessons) = ExpectedSections(sequence, 1)
           /\ \A a, b \in DOMAIN lessons : a <= b => lessons[a].sectionId <= lessons[b].sectionId
           /\ \A n \in 0..Len(sequence) :
                LET earlier == ExpectedSections(SubSeq(sequence, 1, n), 1)
                IN /\ Len(earlier) <= Len(lessons)
                   /\ SectionFields(SubSeq(lessons, 1, Len(earlier))) = earlier

\* A header after the only lesson: the lesson keeps the section it was
\* processed under while another section has become current.
C20_Witness ==
    /\ Walked
    /\ Len(walk.lessons) = 1
    /\ walk.lessons[1].sectionId = 1001
    /\ walk.lessons[1].sectionTitle = "Intro"
    /\ walk.currentSection.id = 1002
    /\ walk.currentSection.title = ""

\* A response of one of the two declared forms: {ok: true, data} carrying a
\* payload and no error, or {ok: false, error} carrying a message and no data.
WellFormedResponse(response) ==
    /\ response.present
    /\ \/ response.ok /\ response.data # NoData /\ response.error = <<>>
       \/ ~response.ok /\ response.error # <<>> /\ response.data = NoData

\* C21: the registered handler answers every message of type
\* 'extract-course-data' with exactly one response, {ok: true, data} or
\* {ok: false, error}; an extraction that throws is answered with the failure
\* form carrying the thrown message, so the exception does not leave the
\* handler; a message of another type, or no message, gets no response and
\* starts no extraction.
C21_OneResponsePerRequest ==
    /\ (IsRequest(lastMessage) /\ seenRuns >= 1) =>
           /\ Len(responses) = 1
           /\ WellFormedResponse(responses[1])
           /\ extractions = 1
           /\ steps # <<>>
           /\ responses[1].ok <=> ~ExtractCoursePayload(page).threw
           /\ ExtractCoursePayload(page).threw =>
                  responses[1].error = ExtractCoursePayload(page).error.message
    /\ ~IsRequest(lastMessage) =>
           /\ responses = <<>>
           /\ extractions = 0
           /\ steps = <<>>
           /\ walk = NoWalk

\* The second message to reach the handler is a request on a page without a
\* course title: the extraction throws and is answered once, with a failure.
C21_Witness ==
    /\ messages = 2
    /\ IsRequest(lastMessage)
    /\ seenRuns >= 1
    /\ IsCourseLocation(page.pathname)
    /\ page.title = ""
    /\ responses = <<FailResponse(MsgNoCourse)>>
    /\ extractions = 1

CompletesTarget(event) == event = <<"target", "complete">>

\* C22: waitForTabComplete settles exactly once whatever the order of tab
\* updates and the timer. It resolves only on an update of the target tab
\* with status complete (updates of other tabs or with another status leave
\* it pending), it rejects only when the timer fires, and once it has settled
\* the listener is removed and the timer cleared, so a later update reaches
\* no listener and the timer cannot fire.
C22_WaitSettlesOnce ==
    LET received == wait.received
        n == Len(received)
    IN /\ wait.calls <= 1
       /\ wait.promise = "none" <=> wait = NoWait
       /\ wait.promise = "pending" =>
              /\ pc = "wait"
              /\ wait.calls = 0
              /\ ~wait.finished /\ wait.listener /\ wait.timer
              /\ \A i \in 1..n : ~CompletesTarget(received[i])
              /\ n = tabEvents
       /\ wait.promise = "resolved" =>
              /\ wait.calls = 1
              /\ n >= 1
              /\ CompletesTarget(received[n])
              /\ \A i \in 1..(n - 1) : ~CompletesTarget(received[i])
              /\ ~run.timedOut
              /\ Count(run.log, "recovered") = 1
       /\ wait.promise = "rejected" =>
              /\ wait.calls = 1
              /\ \A i \in 1..n : ~CompletesTarget(received[i])
              /\ run.timedOut
              /\ Finished /\ status = CatchStatus(Err(MsgTimeout))
              /\ Count(run.log, "recovered") = 0
       /\ wait.promise \in {"resolved", "rejected"} =>
              /\ pc # "wait"
              /\ wait.finished /\ ~wait.listener /\ ~wait.timer
              /\ n <= tabEvents

\* The timer fired after one update that was not the target tab's completion
\* had been received, and an update reported after that reached no listener:
\* the wait stays rejected and the timeout stays on display.
C22_Witness ==
    /\ wait.promise = "rejected"
    /\ Len(wait.received) = 1
    /\ tabEvents = 2
    /\ wait.calls = 1
    /\ ~wait.listener
    /\ status = CatchStatus(Err(MsgTimeout))

====
